---- MODULE Spec2Model ----
(***************************************************************************)
(* Blender magnetic field importer (blender_import_magnetic_field.py).     *)
(*                                                                         *)
(* Lengths are counted in units of 0.05 (the tracer's step_size), so the   *)
(* step is 1 unit and the domain bound 2 is 40 units; arithmetic on the    *)
(* coordinates is exact.  Magnitudes are integers.  mathutils Vectors are  *)
(* mutable objects: they live in `heap` and are referred to by address, so *)
(* that `current_pos += ...` changes whatever shares the Vector.           *)
(***************************************************************************)
EXTENDS Integers, Sequences, FiniteSets, TLC

\* ------------------------------------------------------------------ bounds
MaxLen == 2          \* samples in a dataset
MaxSteps == 2        \* max_steps handed to trace_field_line when called directly

\* ------------------------------------------------------- program constants
StepSize == 1        \* step_size = 0.05, one unit of length
DomainBound == 40    \* abs(coordinate) > 2, in units of 0.05
CURVE_STEPS == 50
CurveStarts == 50    \* len(field_points) // 50
TraceCutoff == 1000000   \* magnitude < max_magnitude * 1e-6
CurveCutoff == 100       \* magnitude < max_magnitude * 0.01
ARROW_COLOR_MODE == "magnitude"
SHOW_SOURCES == TRUE

\* ------------------------------------------------------------ input domains
Positions == { <<36, 0, 36>>, <<39, -40, 40>>, <<41, 0, 0>> }
FieldVecs == { <<0, 0, 0>>, <<2, 0, 0>>, <<0, 0, 1>> }
Magnitudes == { 0, 1 }
FileSamples == [position : Positions, field : FieldVecs, magnitude : Magnitudes]

RECURSIVE SeqsUpTo(_, _)
SeqsUpTo(S, n) ==
    IF n = 0 THEN { <<>> }
    ELSE LET shorter == SeqsUpTo(S, n - 1)
         IN  shorter \cup { Append(s, x) : s \in { t \in shorter : Len(t) = n - 1 }, x \in S }

JsonPath == << "f", ".", "j", "s", "o", "n" >>
CsvPath == << "f", ".", "c", "s", "v" >>
TxtPath == << "f", ".", "t", "x", "t" >>
UpperPath == << "f", ".", "J", "S", "O", "N" >>
Paths == { JsonPath, CsvPath, TxtPath, UpperPath }
Modes == { "arrows", "particles", "curves", "points" }
DocumentedModes == { "arrows", "particles", "curves" }
SourceCounts == { 0, 1 }    \* source coils in a JSON file
SceneStarts == { {}, { <<"Cube", 0>>, <<"Light", 0>> } }

\* str.endswith
EndsWith(s, suffix) ==
    /\ Len(s) >= Len(suffix)
    /\ SubSeq(s, Len(s) - Len(suffix) + 1, Len(s)) = suffix

\* ------------------------------------------------------------ vector algebra
Abs(x) == IF x < 0 THEN -x ELSE x

VecSub(a, b) == << a[1] - b[1], a[2] - b[2], a[3] - b[3] >>

VecAdd(a, b) == << a[1] + b[1], a[2] + b[2], a[3] + b[3] >>

VecScale(a, k) == << a[1] * k, a[2] * k, a[3] * k >>

LengthSquared(a) == a[1] * a[1] + a[2] * a[2] + a[3] * a[3]

\* Vector.length of a vector whose length is a whole number
Length(a) == CHOOSE r \in 0..LengthSquared(a) : r * r = LengthSquared(a)

\* Vector.normalized(): the zero vector stays the zero vector
Normalized(a) ==
    IF LengthSquared(a) = 0 THEN a
    ELSE << a[1] \div Length(a), a[2] \div Length(a), a[3] \div Length(a) >>

BelowAbsolute(m, M, cutoff) == m <= 0

\* m < M * (1 / cutoff), for whole m and M
BelowFraction(m, M, cutoff) == m <= (M - 1) \div cutoff

OutOfBoundsXY(p) ==
    \/ Abs(p[1]) > DomainBound
    \/ Abs(p[2]) > DomainBound

\* abs(current_pos.x) > 2 or abs(current_pos.y) > 2 or abs(current_pos.z) > 2
OutOfBounds(p) ==
    \/ Abs(p[1]) > DomainBound
    \/ Abs(p[2]) > DomainBound
    \/ Abs(p[3]) > DomainBound

\* ------------------------------------------------------------------- state
VARIABLES
    pc,                  \* position in main() or in trace_field_line()
    caller,              \* "main": trace called by visualize_curves; "direct": called directly
    file_path,           \* FILE_PATH, as a sequence of characters
    visualization_mode,  \* VISUALIZATION_MODE
    file,                \* what is on disk at FILE_PATH
    scene,               \* the host's data: objects, collections, materials, curves
    field_points,        \* list of sample dicts; position and field are Vector addresses
    sources,             \* len(sources)
    max_magnitude,
    i,                   \* loop index of visualize_arrows / visualize_curves
    streamline_count,
    error,               \* "none", or the error the run ended with
    max_of_empty,        \* max() was evaluated over an empty sequence
    called,              \* the functions main() has called so far
    heap,                \* address -> value of each live Vector
    start_point,         \* trace_field_line: the start sample dict
    max_steps,
    steps,               \* iterations of the trace loop completed
    current_pos,         \* address of the tracer's running position
    points,              \* the tracer's output list
    field                \* index in field_points of the sample interpolate_field returned, 0 = None

vars == << pc, caller, file_path, visualization_mode, file, scene, field_points, sources,
           max_magnitude, i, streamline_count, error, max_of_empty, called, heap, start_point,
           max_steps, steps, current_pos, points, field >>

mainVars == << file_path, visualization_mode, file, scene, sources, i, streamline_count,
               error, max_of_empty, called >>

NoSample == [position |-> 0, field |-> 0, magnitude |-> 0]

EmptyScene(objs) == [objects |-> objs, collections |-> {}, materials |-> {}, curves |-> {}]

\* ------------------------------------------------------------------ loaders
\* The Vectors the loader constructs: sample k has its position at 2k-1, its field at 2k
LoadedHeap(samples) ==
    [a \in 1..(2 * Len(samples)) |->
        IF a % 2 = 1 THEN samples[(a + 1) \div 2].position ELSE samples[a \div 2].field]

LoadedPoints(samples) ==
    [k \in 1..Len(samples) |->
        [position |-> 2 * k - 1, field |-> 2 * k, magnitude |-> samples[k].magnitude]]

\* ---------------------------------------------------------- interpolate_field
DistLessEq(dist, min_dist) == dist <= min_dist

DistLess(dist, min_dist) == dist < min_dist

\* The scan of lines 285-289 from sample k on; nearest = 0 stands for None with
\* min_dist = inf, which every distance is below.
RECURSIVE NearestFrom(_, _, _, _, _, _)
NearestFrom(h, fps, position, k, nearest, min_dist) ==
    IF k > Len(fps) THEN nearest
    ELSE LET dist == LengthSquared(VecSub(h[fps[k].position], position))
         IN  IF nearest = 0 \/ DistLess(dist, min_dist)
             THEN NearestFrom(h, fps, position, k + 1, k, dist)
             ELSE NearestFrom(h, fps, position, k + 1, nearest, min_dist)

InterpolateField(h, fps, position) == NearestFrom(h, fps, position, 1, 0, 0)

\* ---------------------------------------------------------- trace_field_line
AliasAddr(h, a) == a

\* Vector.copy(): the address of the new Vector
CopyAddr(h, a) == Len(h) + 1

CopyHeap(h, a) == Append(h, h[a])

RangeIncludes(n, bound) == n <= bound

\* for _ in range(max_steps): iteration number n (from 0) runs
InRange(n, bound) == n < bound

SteppedPos(h, fps, nearest, pos) ==
    VecAdd(h[pos], VecScale(Normalized(h[fps[nearest].field]), StepSize))

TraceEnter ==
    /\ pc = "trace_field_line"
    /\ points' = << start_point >>
    /\ current_pos' = CopyAddr(heap, start_point.position)
    /\ heap' = CopyHeap(heap, start_point.position)
    /\ steps' = 0
    /\ field' = 0
    /\ pc' = "trace_loop"
    /\ UNCHANGED << caller, field_points, max_magnitude, start_point, max_steps, mainVars >>

TraceInterpolate ==
    /\ pc = "trace_loop"
    /\ InRange(steps, max_steps)
    /\ field' = InterpolateField(heap, field_points, heap[current_pos])
    /\ pc' = "trace_sampled"
    /\ UNCHANGED << caller, field_points, max_magnitude, start_point, max_steps, steps,
                    current_pos, points, heap, mainVars >>

TraceExhausted ==
    /\ pc = "trace_loop"
    /\ ~InRange(steps, max_steps)
    /\ pc' = "trace_return"
    /\ UNCHANGED << caller, field_points, max_magnitude, start_point, max_steps, steps,
                    current_pos, points, heap, field, mainVars >>

FieldTooWeak ==
    IF field = 0 THEN TRUE
    ELSE BelowFraction(field_points[field].magnitude, max_magnitude, TraceCutoff)

TraceBreakField ==
    /\ pc = "trace_sampled"
    /\ FieldTooWeak
    /\ pc' = "trace_return"
    /\ UNCHANGED << caller, field_points, max_magnitude, start_point, max_steps, steps,
                    current_pos, points, heap, field, mainVars >>

TraceStepOut ==
    /\ pc = "trace_sampled"
    /\ ~FieldTooWeak
    /\ OutOfBounds(SteppedPos(heap, field_points, field, current_pos))
    /\ heap' = [heap EXCEPT ![current_pos] = SteppedPos(heap, field_points, field, current_pos)]
    /\ pc' = "trace_return"
    /\ UNCHANGED << caller, field_points, max_magnitude, start_point, max_steps, steps,
                    current_pos, points, field, mainVars >>

TraceStepAppend ==
    /\ pc = "trace_sampled"
    /\ ~FieldTooWeak
    /\ ~OutOfBounds(SteppedPos(heap, field_points, field, current_pos))
    /\ LET stepped == [heap EXCEPT ![current_pos] =
                          SteppedPos(heap, field_points, field, current_pos)]
       IN  /\ heap' = CopyHeap(stepped, current_pos)
           /\ points' = Append(points, [position |-> CopyAddr(stepped, current_pos),
                                        magnitude |-> field_points[field].magnitude])
    /\ steps' = steps + 1
    /\ pc' = "trace_loop"
    /\ UNCHANGED << caller, field_points, max_magnitude, start_point, max_steps,
                    current_pos, field, mainVars >>

TraceReturn ==
    /\ pc = "trace_return"
    /\ pc' = IF caller = "main" THEN "curves_traced" ELSE "trace_done"
    /\ UNCHANGED << caller, field_points, max_magnitude, start_point, max_steps, steps,
                    current_pos, points, heap, field, mainVars >>

\* ------------------------------------------- trace_field_line called directly
TraceMaxMagnitudes == { 0, 1, 2500000 }

\* A start dict that is no member of the sequence; the tracer never reads its field
FreshStarts == [position : Positions, field : { <<0, 0, 0>> }, magnitude : Magnitudes]

InitTrace ==
    /\ pc = "trace_field_line"
    /\ caller = "direct"
    /\ file_path = JsonPath
    /\ visualization_mode = "curves"
    /\ \E samples \in SeqsUpTo(FileSamples, MaxLen) :
          /\ file = [ok |-> TRUE, samples |-> samples, sources |-> 0]
          /\ field_points = LoadedPoints(samples)
          /\ \/ \E k \in 1..Len(samples) :
                   /\ start_point = LoadedPoints(samples)[k]
                   /\ heap = LoadedHeap(samples)
             \/ \E s \in FreshStarts :
                   /\ start_point = [position |-> 2 * Len(samples) + 1,
                                     field |-> 2 * Len(samples) + 2,
                                     magnitude |-> s.magnitude]
                   /\ heap = LoadedHeap(samples) \o << s.position, s.field >>
    /\ scene = EmptyScene({})
    /\ sources = 0
    /\ max_magnitude \in TraceMaxMagnitudes
    /\ max_steps \in 0..MaxSteps
    /\ i = 0
    /\ streamline_count = 0
    /\ error = "none"
    /\ max_of_empty = FALSE
    /\ called = {}
    /\ steps = 0
    /\ current_pos = 0
    /\ points = << >>
    /\ field = 0

NextTrace ==
    \/ TraceEnter
    \/ TraceInterpolate
    \/ TraceExhausted
    \/ TraceBreakField
    \/ TraceStepOut
    \/ TraceStepAppend
    \/ TraceReturn

SpecTrace == InitTrace /\ [][NextTrace]_vars

\* --------------------------------------------------------------------- main
Files ==
    { [ok |-> FALSE, samples |-> << >>, sources |-> 0] }
    \cup [ok : { TRUE }, samples : SeqsUpTo(FileSamples, MaxLen), sources : SourceCounts]

traceVars == << start_point, max_steps, steps, current_pos, points, field >>

InitMain ==
    /\ pc = "main"
    /\ caller = "main"
    /\ file_path \in Paths
    /\ visualization_mode \in Modes
    /\ file \in Files
    /\ EndsWith(file_path, << ".", "c", "s", "v" >>) => file.sources = 0   \* CSV holds no sources
    /\ scene \in { EmptyScene(objs) : objs \in SceneStarts }
    /\ field_points = << >>
    /\ sources = 0
    /\ max_magnitude = 0
    /\ i = 0
    /\ streamline_count = 0
    /\ error = "none"
    /\ max_of_empty = FALSE
    /\ called = {}
    /\ heap = << >>
    /\ start_point = NoSample
    /\ max_steps = 0
    /\ steps = 0
    /\ current_pos = 0
    /\ points = << >>
    /\ field = 0

\* clear_scene(): select every object and delete the selection
ClearScene ==
    /\ pc = "main"
    /\ scene' = [scene EXCEPT !.objects = {}]
    /\ called' = called \cup { "clear_scene" }
    /\ pc' = "load"
    /\ UNCHANGED << caller, file_path, visualization_mode, file, field_points, sources,
                    max_magnitude, i, streamline_count, error, max_of_empty, heap, traceVars >>

\* load_field_data_json(): a malformed file raises out of main()
LoadJson ==
    /\ pc = "load"
    /\ EndsWith(file_path, << ".", "j", "s", "o", "n" >>)
    /\ called' = called \cup { "load_field_data_json" }
    /\ IF file.ok
       THEN /\ field_points' = LoadedPoints(file.samples)
            /\ heap' = LoadedHeap(file.samples)
            /\ sources' = file.sources
            /\ pc' = "find_max"
            /\ error' = error
       ELSE /\ error' = "ParseError"
            /\ pc' = "raised"
            /\ UNCHANGED << field_points, heap, sources >>
    /\ UNCHANGED << caller, file_path, visualization_mode, file, scene, max_magnitude, i,
                    streamline_count, max_of_empty, traceVars >>

\* load_field_data_csv(): no sources in this format
LoadCsv ==
    /\ pc = "load"
    /\ ~EndsWith(file_path, << ".", "j", "s", "o", "n" >>)
    /\ EndsWith(file_path, << ".", "c", "s", "v" >>)
    /\ called' = called \cup { "load_field_data_csv" }
    /\ IF file.ok
       THEN /\ field_points' = LoadedPoints(file.samples)
            /\ heap' = LoadedHeap(file.samples)
            /\ sources' = 0
            /\ pc' = "find_max"
            /\ error' = error
       ELSE /\ error' = "ParseError"
            /\ pc' = "raised"
            /\ UNCHANGED << field_points, heap, sources >>
    /\ UNCHANGED << caller, file_path, visualization_mode, file, scene, max_magnitude, i,
                    streamline_count, max_of_empty, traceVars >>

\* "Error: File must be .json or .csv" and return
LoadUnsupported ==
    /\ pc = "load"
    /\ ~EndsWith(file_path, << ".", "j", "s", "o", "n" >>)
    /\ ~EndsWith(file_path, << ".", "c", "s", "v" >>)
    /\ error' = "FileFormat"
    /\ pc' = "returned"
    /\ UNCHANGED << caller, file_path, visualization_mode, file, scene, field_points, sources,
                    max_magnitude, i, streamline_count, max_of_empty, called, heap, traceVars >>

RECURSIVE MaxMagnitudeFrom(_, _, _)
MaxMagnitudeFrom(fps, k, best) ==
    IF k > Len(fps) THEN best
    ELSE MaxMagnitudeFrom(fps, k + 1, IF fps[k].magnitude > best THEN fps[k].magnitude ELSE best)

\* max(p['magnitude'] for p in field_points), for a non-empty list
MaxMagnitude(fps) == MaxMagnitudeFrom(fps, 2, fps[1].magnitude)

\* max() of an empty sequence raises ValueError out of main()
FindMax ==
    /\ pc = "find_max"
    /\ IF Len(field_points) = 0
       THEN /\ max_of_empty' = TRUE
            /\ error' = "ValueError"
            /\ pc' = "raised"
            /\ max_magnitude' = max_magnitude
       ELSE /\ max_magnitude' = MaxMagnitude(field_points)
            /\ pc' = "visualize"
            /\ UNCHANGED << max_of_empty, error >>
    /\ UNCHANGED << caller, file_path, visualization_mode, file, scene, field_points, sources,
                    i, streamline_count, called, heap, traceVars >>

VisualizeArrowsBegin ==
    /\ pc = "visualize"
    /\ visualization_mode = "arrows"
    /\ called' = called \cup { "visualize_arrows" }
    /\ scene' = [scene EXCEPT !.collections = @ \cup { "Magnetic Field Arrows" }]
    /\ i' = 0
    /\ pc' = "arrows_loop"
    /\ UNCHANGED << caller, file_path, visualization_mode, file, field_points, sources,
                    max_magnitude, streamline_count, error, max_of_empty, heap, traceVars >>

VisualizeCurvesBegin ==
    /\ pc = "visualize"
    /\ visualization_mode # "arrows"
    /\ visualization_mode = "curves"
    /\ called' = called \cup { "visualize_curves" }
    /\ scene' = [scene EXCEPT !.collections = @ \cup { "Magnetic Field Lines" }]
    /\ i' = 0
    /\ streamline_count' = 0
    /\ pc' = "curves_loop"
    /\ UNCHANGED << caller, file_path, visualization_mode, file, field_points, sources,
                    max_magnitude, error, max_of_empty, heap, traceVars >>

UnknownModeFallsThrough ==
    /\ pc = "visualize"
    /\ visualization_mode # "arrows"
    /\ visualization_mode # "curves"
    /\ error' = "UnknownMode"
    /\ pc' = "create_sources"
    /\ UNCHANGED << caller, file_path, visualization_mode, file, scene, field_points, sources,
                    max_magnitude, i, streamline_count, max_of_empty, called, heap, traceVars >>

\* "Unknown visualization mode" and return
UnknownMode ==
    /\ pc = "visualize"
    /\ visualization_mode # "arrows"
    /\ visualization_mode # "curves"
    /\ error' = "UnknownMode"
    /\ pc' = "returned"
    /\ UNCHANGED << caller, file_path, visualization_mode, file, scene, field_points, sources,
                    max_magnitude, i, streamline_count, max_of_empty, called, heap, traceVars >>

\* magnitude_to_color: gray when max_magnitude is 0, else a hue from the ratio
MagnitudeToColor(magnitude, max_mag) ==
    IF max_mag = 0 THEN "gray"
    ELSE IF magnitude >= max_mag THEN "red"
    ELSE IF magnitude = 0 THEN "blue"
    ELSE "between"

\* direction_to_color: the components of the unit vector, mapped to 0..1
DirectionToColor(field_vector) == << "rgb", Normalized(field_vector) >>

\* One pass of the loop of visualize_arrows over field_points[i]
ArrowsIter ==
    /\ pc = "arrows_loop"
    /\ i < Len(field_points)
    /\ LET mag == field_points[i + 1].magnitude
       IN  IF BelowFraction(mag, max_magnitude, TraceCutoff)
           THEN /\ i' = i + 1
                /\ UNCHANGED << scene, error, pc >>
           ELSE IF max_magnitude = 0
           THEN \* mag / max_magnitude raises ZeroDivisionError
                /\ error' = "ZeroDivisionError"
                /\ pc' = "raised"
                /\ UNCHANGED << scene, i >>
           ELSE /\ scene' = [scene EXCEPT
                      !.objects = @ \cup { << "arrow", i >> },
                      !.materials = @ \cup { << "arrow", i,
                          IF ARROW_COLOR_MODE = "magnitude"
                          THEN MagnitudeToColor(mag, max_magnitude)
                          ELSE DirectionToColor(heap[field_points[i + 1].field]) >> }]
                /\ i' = i + 1
                /\ UNCHANGED << error, pc >>
    /\ UNCHANGED << caller, file_path, visualization_mode, file, field_points, sources,
                    max_magnitude, streamline_count, max_of_empty, called, heap, traceVars >>

ArrowsEnd ==
    /\ pc = "arrows_loop"
    /\ i >= Len(field_points)
    /\ pc' = "create_sources"
    /\ UNCHANGED << caller, file_path, visualization_mode, file, scene, field_points, sources,
                    max_magnitude, i, streamline_count, error, max_of_empty, called, heap,
                    traceVars >>

\* step = max(1, len(field_points) // 50)
CurveStride(n) == IF n \div CurveStarts > 1 THEN n \div CurveStarts ELSE 1

\* The Vectors of the dataset: those of an earlier trace are unreachable once
\* `points` is rebound, and are reclaimed.
Reachable(h, fps) == SubSeq(h, 1, 2 * Len(fps))

\* visualize_curves: field_points[i] is skipped, or trace_field_line is called on it
CurvesIter ==
    /\ pc = "curves_loop"
    /\ i < Len(field_points)
    /\ IF BelowFraction(field_points[i + 1].magnitude, max_magnitude, CurveCutoff)
       THEN /\ i' = i + CurveStride(Len(field_points))
            /\ UNCHANGED << pc, start_point, max_steps, heap >>
       ELSE /\ start_point' = field_points[i + 1]
            /\ max_steps' = CURVE_STEPS
            /\ heap' = Reachable(heap, field_points)
            /\ pc' = "trace_field_line"
            /\ i' = i
    /\ UNCHANGED << caller, file_path, visualization_mode, file, scene, field_points, sources,
                    max_magnitude, streamline_count, error, max_of_empty, called,
                    steps, current_pos, points, field >>

\* visualize_curves after the trace: the curve, its object and its material
CurvesBuild ==
    /\ pc = "curves_traced"
    /\ IF Len(points) < 2
       THEN /\ i' = i + CurveStride(Len(field_points))
            /\ pc' = "curves_loop"
            /\ UNCHANGED << scene, streamline_count, error >>
       ELSE IF max_magnitude = 0
       THEN \* start_point['magnitude'] / max_magnitude raises ZeroDivisionError
            /\ scene' = [scene EXCEPT
                  !.curves = @ \cup { << "streamline", streamline_count, Len(points) >> },
                  !.objects = @ \cup { << "streamline", streamline_count >> }]
            /\ error' = "ZeroDivisionError"
            /\ pc' = "raised"
            /\ UNCHANGED << i, streamline_count >>
       ELSE /\ scene' = [scene EXCEPT
                  !.curves = @ \cup { << "streamline", streamline_count, Len(points) >> },
                  !.objects = @ \cup { << "streamline", streamline_count >> },
                  !.materials = @ \cup { << "streamline", streamline_count,
                                           MagnitudeToColor(start_point.magnitude, max_magnitude) >> }]
            /\ streamline_count' = streamline_count + 1
            /\ i' = i + CurveStride(Len(field_points))
            /\ pc' = "curves_loop"
            /\ error' = error
    /\ UNCHANGED << caller, file_path, visualization_mode, file, field_points, sources,
                    max_magnitude, max_of_empty, called, heap, traceVars >>

CurvesEnd ==
    /\ pc = "curves_loop"
    /\ i >= Len(field_points)
    /\ pc' = "create_sources"
    /\ UNCHANGED << caller, file_path, visualization_mode, file, scene, field_points, sources,
                    max_magnitude, i, streamline_count, error, max_of_empty, called, heap,
                    traceVars >>

\* create_sources(sources): one torus and one material per source
CreateSources ==
    /\ pc = "create_sources"
    /\ called' = called \cup { "create_sources" }
    /\ IF sources = 0 \/ ~SHOW_SOURCES
       THEN scene' = scene
       ELSE scene' = [scene EXCEPT
                !.collections = @ \cup { "Field Sources" },
                !.objects = @ \cup { << "source", k >> : k \in 0..(sources - 1) },
                !.materials = @ \cup { << "source", k, "orange" >> : k \in 0..(sources - 1) }]
    /\ pc' = "setup_scene"
    /\ UNCHANGED << caller, file_path, visualization_mode, file, field_points, sources,
                    max_magnitude, i, streamline_count, error, max_of_empty, heap, traceVars >>

\* setup_scene(): a camera and a sun
SetupScene ==
    /\ pc = "setup_scene"
    /\ called' = called \cup { "setup_scene" }
    /\ scene' = [scene EXCEPT !.objects = @ \cup { << "camera", 0 >>, << "sun", 0 >> }]
    /\ pc' = "done"
    /\ UNCHANGED << caller, file_path, visualization_mode, file, field_points, sources,
                    max_magnitude, i, streamline_count, error, max_of_empty, heap, traceVars >>

NextMain ==
    \/ ClearScene
    \/ LoadJson
    \/ LoadCsv
    \/ LoadUnsupported
    \/ FindMax
    \/ VisualizeArrowsBegin
    \/ VisualizeCurvesBegin
    \/ UnknownMode
    \/ ArrowsIter
    \/ ArrowsEnd
    \/ CurvesIter
    \/ CurvesBuild
    \/ CurvesEnd
    \/ CreateSources
    \/ SetupScene
    \/ TraceEnter
    \/ TraceInterpolate
    \/ TraceExhausted
    \/ TraceBreakField
    \/ TraceStepOut
    \/ TraceStepAppend
    \/ TraceReturn

SpecMain == InitMain /\ [][NextMain]_vars

\* ================================================================== claims
Ended == { "returned", "raised", "done" }

TracePcs == { "trace_loop", "trace_sampled", "trace_return", "trace_done" }

InBox(p) == \A c \in 1..3 : Abs(p[c]) <= DomainBound

UnsupportedPath ==
    /\ ~EndsWith(file_path, << ".", "j", "s", "o", "n" >>)
    /\ ~EndsWith(file_path, << ".", "c", "s", "v" >>)

\* Squared distance from sample k to the tracer's current position
DistTo(k, p) == LengthSquared(VecSub(heap[field_points[k].position], p))

\* k is the lowest index among the samples nearest to p
FirstNearest(k, p) ==
    /\ k \in 1..Len(field_points)
    /\ \A j \in 1..Len(field_points) : DistTo(k, p) <= DistTo(j, p)
    /\ \A j \in 1..(k - 1) : DistTo(j, p) > DistTo(k, p)

\* C1: with a path ending in neither .json nor .csv, no step of the run changes the
\* scene, loads samples or raises.
C1_UnsupportedPathLeavesSceneAlone ==
    [][UnsupportedPath => (scene' = scene /\ field_points' = << >> /\ pc' # "raised")]_vars

\* C2: a run over a non-empty dataset in a documented mode (arrows, particles, curves)
\* does not end early, and the unknown-mode abort is taken only outside those modes.
C2_DocumentedModesRunToCompletion ==
    /\ (error = "UnknownMode") => (visualization_mode \notin DocumentedModes)
    /\ (Len(field_points) > 0 /\ visualization_mode \in DocumentedModes)
          => (pc \notin { "returned", "raised" })

\* C3: max() is never evaluated over an empty sample sequence, and a run that loaded
\* zero samples ends with an empty-dataset error.
C3_EmptyDatasetGuarded ==
    /\ ~max_of_empty
    /\ (pc \in Ended /\ file.ok /\ file.samples = << >> /\ ~UnsupportedPath)
          => (error = "EmptyDatasetError")

\* C4 as stated: no element of the tracer's output, the start element included, lies
\* beyond the domain bound.
C4_NoPointBeyondBound ==
    (pc \in TracePcs) => \A j \in 1..Len(points) : InBox(heap[points[j].position])

\* C4 amended: every element after the start lies within the bound, the loop never
\* goes on from a stepped position beyond the bound, and the start element is within
\* the bound when the start sample's position is.
C4_SteppedPointsWithinBound ==
    (pc \in TracePcs) =>
        /\ \A j \in 2..Len(points) : InBox(heap[points[j].position])
        /\ (pc \in { "trace_loop", "trace_sampled" } /\ steps > 0) => InBox(heap[current_pos])
        /\ InBox(heap[start_point.position]) =>
              \A j \in 1..Len(points) : InBox(heap[points[j].position])

C4_Witness ==
    /\ pc = "trace_done"
    /\ InBox(heap[start_point.position])
    /\ Len(points) >= 2
    /\ ~InBox(heap[current_pos])

\* C5 as stated: a start sample whose magnitude is below max_magnitude * 1e-6 gives a
\* trace of length 1, whatever the other samples are.
C5_WeakStartGivesSinglePoint ==
    (pc = "trace_done" /\ start_point.magnitude * TraceCutoff < max_magnitude)
        => (Len(points) = 1)

\* C5 amended: a start sample whose magnitude is below max_magnitude * 1e-6 gives a
\* trace of length 1 when the start sample is the one interpolate_field selects at
\* its own position: a member of the sequence with no earlier sample at that position.
C5_WeakSelectedStartGivesSinglePoint ==
    (/\ pc = "trace_done"
     /\ start_point.magnitude * TraceCutoff < max_magnitude
     /\ \E k \in 1..Len(field_points) :
           /\ field_points[k] = start_point
           /\ FirstNearest(k, heap[start_point.position]))
        => (Len(points) = 1)

C5_Witness ==
    /\ pc = "trace_done"
    /\ max_steps > 0
    /\ start_point.magnitude > 0
    /\ start_point.magnitude * TraceCutoff < max_magnitude
    /\ Len(field_points) = 2
    /\ field_points[2] = start_point
    /\ FirstNearest(2, heap[start_point.position])
    /\ Len(points) = 1

\* C6: the trace loop runs at most max_steps times (each pass that goes on adds one
\* point), and the output starts with the start point and has between 1 and
\* max_steps + 1 elements, also for an empty sequence and for max_steps = 0.
C6_TraceLengthBounded ==
    (pc \in TracePcs) =>
        /\ steps <= max_steps
        /\ Len(points) = steps + 1
        /\ points[1] = start_point
        /\ 1 <= Len(points)
        /\ Len(points) <= max_steps + 1

C6_Witness ==
    /\ pc = "trace_done"
    /\ max_steps = MaxSteps
    /\ Len(points) = max_steps + 1

C6_WitnessEmpty ==
    /\ pc = "trace_done"
    /\ Len(field_points) = 0
    /\ max_steps = 0
    /\ points = << start_point >>

\* C7: interpolate_field returns the lowest-index sample among those nearest to the
\* query position, and None for an empty sequence.
C7_NearestFirstMinimum ==
    (pc = "trace_sampled") =>
        IF Len(field_points) = 0 THEN field = 0
        ELSE FirstNearest(field, heap[current_pos])

C7_Witness ==
    /\ pc = "trace_sampled"
    /\ Len(field_points) = 2
    /\ DistTo(1, heap[current_pos]) = DistTo(2, heap[current_pos])
    /\ DistTo(1, heap[current_pos]) > 0
    /\ field = 1

\* C8: a run that ended with an unsupported extension, a parse error, an empty
\* dataset or an unknown mode has created nothing in the scene and has called
\* neither create_sources nor setup_scene.
C8_NoPartialOutputAfterError ==
    (error \in { "FileFormat", "ParseError", "ValueError", "UnknownMode" }) =>
        /\ scene.collections = {}
        /\ scene.objects = {}
        /\ scene.materials = {}
        /\ scene.curves = {}
        /\ called \cap { "create_sources", "setup_scene" } = {}

C8_Witness ==
    /\ pc = "returned"
    /\ error = "UnknownMode"
    /\ Len(field_points) > 0
    /\ sources > 0

\* C9: no run over a non-empty dataset divides by a max_magnitude of zero.
C9_NoDivisionByZeroMaximum ==
    (Len(field_points) > 0) => (error # "ZeroDivisionError")

\* C10: no step of a trace changes a sample of the sequence or the start sample
\* (position, field, magnitude), nor an output point appended earlier or the
\* position it holds.
C10_TraceLeavesDataUnchanged ==
    [][/\ field_points' = field_points
       /\ start_point' = start_point
       /\ \A k \in 1..Len(field_points) :
             /\ heap'[field_points[k].position] = heap[field_points[k].position]
             /\ heap'[field_points[k].field] = heap[field_points[k].field]
       /\ heap'[start_point.position] = heap[start_point.position]
       /\ heap'[start_point.field] = heap[start_point.field]
       /\ \A j \in 1..Len(points) :
             /\ j <= Len(points')
             /\ points'[j] = points[j]
             /\ heap'[points[j].position] = heap[points[j].position]]_vars

C10_Witness ==
    /\ pc = "trace_done"
    /\ Len(points) = 3
    /\ start_point \in { field_points[k] : k \in 1..Len(field_points) }
    /\ heap[points[1].position] # heap[points[2].position]
    /\ heap[points[2].position] # heap[points[3].position]

====
